---------------------------- MODULE Spec2Model ----------------------------
(***************************************************************************)
(* Model of remote_operate (src/lib/common.py, lines 111-209): one SSH     *)
(* session driven through                                                  *)
(*   makedirs -> connect -> open_sftp -> stat [-> mkdir] -> put -> close   *)
(*   -> exec -> drain stdout -> read stderr -> probe -> [get] -> finally   *)
(* against one remote host.  The remote host, the network and the local    *)
(* file system are the environment: every blocking call may succeed, raise *)
(* or lose the connection, and the host may stop responding at any moment. *)
(* The routine is called up to MaxCalls times against the same host.       *)
(***************************************************************************)
EXTENDS Naturals, Sequences, FiniteSets

VARIABLES
    pc,                 \* position of the caller inside remote_operate
    calls,              \* number of calls of remote_operate started so far
    args,               \* the arguments of the call (fixed over the run)
    localFs,            \* local file system: script readable? output dir creatable?
    host,               \* remote host: staging dir, staged script, output file, responsive?
    mkdir,              \* the "mkdir -p" command of this call: none / sent / done
    transport,          \* ssh.get_transport(): none / active / dead / closed
    sftp,               \* the SFTP channel of this call: none / open / closed
    remote_output_path, \* local variable of line 143
    check_cmd,          \* local variable of line 186 ("" before it is built)
    file_exists,        \* local variable of line 188 (tokens of the stripped probe output)
    error_msg,          \* local variable of line 180
    getPath,            \* first argument handed to sftp.get, line 197 ("" before)
    artifact,           \* the output file was downloaded by this call
    ops,                \* history: operations this call attempted, in order
    printed,            \* history: messages this call printed, in order
    failed,             \* history: the stage at which this call failed ("none" if not)
    ret,                \* what the caller got: pending / None / raised
    prev                \* outcome and returned value of the previous finished call

vars == <<pc, calls, args, localFs, host, mkdir, transport, sftp,
          remote_output_path, check_cmd, file_exists, error_msg, getPath,
          artifact, ops, printed, failed, ret, prev>>

\* Number of consecutive calls of remote_operate against the host.
MaxCalls == 2

\* Lines of script output printed by one call.
MaxLines == 1

Range(s) == {s[i] : i \in DOMAIN s}

(***************************************************************************)
(* Inputs.                                                                 *)
(***************************************************************************)
OutputDirs == {"/tmp/out/", "/tmp/out"}
ServerIps  == {"10.0.0.5", "192.168.1.9"}
OutputNames == {"result.csv"}

(***************************************************************************)
(* str.format: the template is a sequence of pieces, "{}" a placeholder    *)
(* replaced by the next argument, every other piece copied verbatim.       *)
(***************************************************************************)
RECURSIVE Format(_, _)
Format(tmpl, fargs) ==
    IF tmpl = <<>> THEN ""
    ELSE IF Head(tmpl) = "{}"
         THEN Head(fargs) \o Format(Tail(tmpl), Tail(fargs))
         ELSE Head(tmpl) \o Format(Tail(tmpl), fargs)

\* A separator-inserting path join in place of the bare concatenation.
OutputPathJoined(dir, ip, fname) ==
    Format(<<"{}", "/", "{}", "_", "{}">>, <<dir, ip, fname>>)

\* line 143: "{}{}_{}".format(remote_output_path, server_ip, remote_output_filename)
OutputPath(dir, ip, fname) ==
    Format(<<"{}", "{}", "_", "{}">>, <<dir, ip, fname>>)

\* line 186: the existence probe sent to the remote shell
CheckCmd(path) ==
    Format(<<"if [ -f ", "{}", " ]; then echo 'exists'; else echo 'no'; fi">>, <<path>>)

(***************************************************************************)
(* str.strip on a text given as a sequence of tokens: leading and trailing *)
(* whitespace tokens are dropped.                                          *)
(***************************************************************************)
Whitespace == {" ", "\n"}

RECURSIVE LStrip(_)
LStrip(s) == IF s # <<>> /\ Head(s) \in Whitespace THEN LStrip(Tail(s)) ELSE s

RECURSIVE RStrip(_)
RStrip(s) ==
    IF s # <<>> /\ s[Len(s)] \in Whitespace THEN RStrip(SubSeq(s, 1, Len(s) - 1)) ELSE s

Strip(s) == RStrip(LStrip(s))

\* What the remote shell writes to stdout for the probe of line 186.
ProbeOutput(present) == IF present THEN <<"exists", "\n">> ELSE <<"no", "\n">>


(***************************************************************************)
(* Decisions taken by the code.                                            *)
(***************************************************************************)

\* A directory check that always falls through to the mkdir branch.
AfterStatAlways(found) == "mkdir"

\* lines 163-167: sftp.stat succeeded -> upload; FileNotFoundError -> mkdir
AfterStat(found) == IF found THEN "put" ELSE "mkdir"

\* A stderr check that prints the error and carries on.
AfterStderrNoReturn(msg) == "probe"

\* lines 181-183: non-empty stderr -> return (through finally), else go on
AfterStderr(msg) == IF msg # "" THEN "finally" ELSE "probe"

\* A download decision that treats everything but the sentinel "no" as present.
ShouldDownloadUnlessNo(fe) == fe # <<"no">>

\* line 193: file_exists == "exists"
ShouldDownload(fe) == fe = <<"exists">>

\* A cleanup that leaves the transport as it is.
FinallyCloseSkipped(t) == t

\* lines 207-208: close the session when its transport is active
FinallyClose(t) == IF t = "active" THEN "closed" ELSE t

\* A routine that reports a failed stage as False.
ReturnValueFlag(stage) == IF stage = "none" THEN "None" ELSE "False"

\* lines 121, 183, 209: the routine returns None on every path
ReturnValue(stage) == "None"

(***************************************************************************)
(* Environment of a blocking remote call: while the host responds the call *)
(* completes ("ok"), raises with the session up ("err") or raises because  *)
(* the connection was lost ("drop"); once the host has stopped responding  *)
(* only a call with a timeout returns, by raising socket.timeout.          *)
(***************************************************************************)
Outcomes(hasTimeout) ==
    IF transport # "active" THEN {"err"}     \* "SSH session not active"
    ELSE IF host.up THEN {"ok", "err", "drop"}
    ELSE IF hasTimeout THEN {"timeout"} ELSE {}

\* The same for a read of a channel file up to end-of-file: a lost connection
\* ends the stream early and raises nothing.
ReadOutcomes(hasTimeout) ==
    IF transport # "active" THEN {"eof"}
    ELSE IF host.up THEN {"ok", "drop"}
    ELSE IF hasTimeout THEN {"timeout"} ELSE {}

\* An exception raised inside the try block at the given stage.
Raise(stage, o) ==
    /\ pc' = "except"
    /\ failed' = stage
    /\ transport' = IF o = "drop" THEN "dead" ELSE transport
    /\ sftp' = IF o = "drop" /\ sftp = "open" THEN "closed" ELSE sftp

\* The outcome class of the call in progress.
Outcome ==
    IF failed # "none" THEN failed
    ELSE IF artifact THEN "downloaded" ELSE "no_output"

(***************************************************************************)
(* Initial state: nothing called yet.                                      *)
(***************************************************************************)
Init ==
    /\ pc = "idle"
    /\ calls = 0
    /\ args \in [remote_output_path : OutputDirs, server_ip : ServerIps,
                 remote_output_filename : OutputNames]
    /\ localFs \in [script : BOOLEAN, outdir : BOOLEAN]
    /\ host \in [dir : BOOLEAN, script : {FALSE}, out : {FALSE}, up : {TRUE}]
    /\ mkdir = "none"
    /\ transport = "none"
    /\ sftp = "none"
    /\ remote_output_path = ""
    /\ check_cmd = ""
    /\ file_exists = <<>>
    /\ error_msg = ""
    /\ getPath = ""
    /\ artifact = FALSE
    /\ ops = <<>>
    /\ printed = <<>>
    /\ failed = "none"
    /\ ret = "pending"
    /\ prev = [outcome |-> "none", ret |-> "none", mkdir |-> FALSE]

(***************************************************************************)
(* remote_operate, statement by statement.                                 *)
(***************************************************************************)

\* lines 111-143: entry; the paths are computed before anything else happens
Call ==
    /\ pc \in {"idle", "done"}
    /\ calls < MaxCalls
    /\ mkdir # "sent"
    /\ pc' = "makedirs"
    /\ calls' = calls + 1
    /\ prev' = IF pc = "done"
               THEN [outcome |-> Outcome, ret |-> ret, mkdir |-> mkdir = "done"]
               ELSE prev
    /\ remote_output_path' =
           OutputPath(args.remote_output_path, args.server_ip, args.remote_output_filename)
    /\ mkdir' = "none"
    /\ transport' = "none"
    /\ sftp' = "none"
    /\ check_cmd' = ""
    /\ file_exists' = <<>>
    /\ error_msg' = ""
    /\ getPath' = ""
    /\ artifact' = FALSE
    /\ ops' = <<>>
    /\ printed' = <<>>
    /\ failed' = "none"
    /\ ret' = "pending"
    /\ UNCHANGED <<args, localFs, host>>

\* lines 145-148: os.makedirs sits before the try block; SSHClient() opens nothing
MakeDirs ==
    /\ pc = "makedirs"
    /\ ops' = Append(ops, "makedirs")
    /\ IF localFs.outdir
       THEN /\ pc' = "connect"
            /\ UNCHANGED <<failed, ret>>
       ELSE /\ pc' = "done"
            /\ failed' = "makedirs"
            /\ ret' = "raised"
    /\ UNCHANGED <<calls, args, localFs, host, mkdir, transport, sftp,
                   remote_output_path, check_cmd, file_exists, error_msg,
                   getPath, artifact, printed, prev>>

\* lines 150-158: ssh.connect(..., timeout=30)
Connect ==
    /\ pc = "connect"
    /\ ops' = Append(ops, "connect")
    /\ printed' = Append(printed, "connect")
    /\ \E o \in IF host.up THEN {"ok", "refused", "auth"} ELSE {"timeout"} :
         CASE o = "ok" ->
                /\ transport' = "active"
                /\ pc' = "open_sftp"
                /\ UNCHANGED failed
           [] o = "auth" ->      \* the transport is up, authentication is rejected
                /\ transport' = "active"
                /\ pc' = "except"
                /\ failed' = "connect"
           [] OTHER ->           \* no transport was established
                /\ transport' = "none"
                /\ pc' = "except"
                /\ failed' = "connect"
    /\ UNCHANGED <<calls, args, localFs, host, mkdir, sftp, remote_output_path,
                   check_cmd, file_exists, error_msg, getPath, artifact, ret, prev>>

\* lines 161-162: ssh.open_sftp(), no timeout
OpenSftp ==
    /\ pc = "open_sftp"
    /\ ops' = Append(ops, "open_sftp")
    /\ printed' = Append(printed, "upload")
    /\ \E o \in Outcomes(FALSE) :
         IF o = "ok"
         THEN /\ sftp' = "open"
              /\ pc' = "stat"
              /\ UNCHANGED <<failed, transport>>
         ELSE Raise("upload", o)
    /\ UNCHANGED <<calls, args, localFs, host, mkdir, remote_output_path,
                   check_cmd, file_exists, error_msg, getPath, artifact, ret, prev>>

\* lines 163-165: sftp.stat(remote_script_dir), no timeout
Stat ==
    /\ pc = "stat"
    /\ ops' = Append(ops, "stat")
    /\ \E o \in Outcomes(FALSE) :
         IF o = "ok"
         THEN /\ pc' = AfterStat(host.dir)
              /\ UNCHANGED <<failed, transport, sftp>>
         ELSE Raise("upload", o)
    /\ UNCHANGED <<calls, args, localFs, host, mkdir, remote_output_path,
                   check_cmd, file_exists, error_msg, getPath, artifact,
                   printed, ret, prev>>

\* line 166: ssh.exec_command("mkdir -p ..."): the command is sent, its
\* completion is not awaited (no read of its output, no exit status)
ExecMkdir ==
    /\ pc = "mkdir"
    /\ ops' = Append(ops, "mkdir")
    /\ \E o \in Outcomes(FALSE) :
         IF o = "ok"
         THEN /\ mkdir' = "sent"
              /\ pc' = "put"
              /\ UNCHANGED <<failed, transport, sftp>>
         ELSE /\ Raise("upload", o)
              /\ UNCHANGED mkdir
    /\ UNCHANGED <<calls, args, localFs, host, remote_output_path, check_cmd,
                   file_exists, error_msg, getPath, artifact, printed, ret, prev>>

\* The remote host runs the pending "mkdir -p": the directory is created
\* (or was there already), or the command fails and changes nothing.
RemoteMkdir ==
    /\ mkdir = "sent"
    /\ mkdir' = "done"
    /\ \E created \in BOOLEAN :
         host' = [host EXCEPT !.dir = host.dir \/ created]
    /\ UNCHANGED <<pc, calls, args, localFs, transport, sftp, remote_output_path,
                   check_cmd, file_exists, error_msg, getPath, artifact, ops,
                   printed, failed, ret, prev>>

\* line 167: sftp.put(local_script_path, remote_script_path), no timeout;
\* the local file is opened first, then written into the remote directory
Put ==
    /\ pc = "put"
    /\ ops' = Append(ops, "put")
    /\ IF ~localFs.script
       THEN /\ Raise("upload", "err")
            /\ UNCHANGED host
       ELSE \E o \in Outcomes(FALSE) :
              IF o = "ok" /\ host.dir
              THEN /\ host' = [host EXCEPT !.script = TRUE]
                   /\ pc' = "sftp_close"
                   /\ UNCHANGED <<failed, transport, sftp>>
              ELSE /\ Raise("upload", IF o = "ok" THEN "err" ELSE o)
                   /\ UNCHANGED host
    /\ UNCHANGED <<calls, args, localFs, mkdir, remote_output_path, check_cmd,
                   file_exists, error_msg, getPath, artifact, printed, ret, prev>>

\* line 168: sftp.close()
SftpClose ==
    /\ pc = "sftp_close"
    /\ sftp' = "closed"
    /\ pc' = "exec"
    /\ UNCHANGED <<calls, args, localFs, host, mkdir, transport,
                   remote_output_path, check_cmd, file_exists, error_msg,
                   getPath, artifact, ops, printed, failed, ret, prev>>


\* lines 171-174: ssh.exec_command("python3 <script>", timeout=180)
Exec ==
    /\ pc = "exec"
    /\ ops' = Append(ops, "exec")
    /\ printed' = Append(printed, "executing")
    /\ \E o \in Outcomes(TRUE) :
         IF o = "ok"
         THEN /\ pc' = "drain"
              /\ UNCHANGED <<failed, transport, sftp>>
         ELSE Raise("execute", o)
    /\ UNCHANGED <<calls, args, localFs, host, mkdir, remote_output_path,
                   check_cmd, file_exists, error_msg, getPath, artifact, ret, prev>>

\* lines 177-178: "for line in stdout", every read bounded by the 180 s
\* timeout; the script runs meanwhile and may write its output file
Drain ==
    /\ pc = "drain"
    /\ \E o \in ReadOutcomes(TRUE) :
         IF o = "timeout"
         THEN /\ Raise("execute", o)
              /\ UNCHANGED <<host, printed>>
         ELSE /\ pc' = "stderr"
              /\ transport' = IF o = "drop" THEN "dead" ELSE transport
              /\ \E wrote \in BOOLEAN :
                   host' = [host EXCEPT !.out = host.out \/ wrote]
              /\ \E lines \in 0..MaxLines :
                   printed' = printed \o [i \in 1..lines |-> "script_output"]
              /\ UNCHANGED <<failed, sftp>>
    /\ UNCHANGED <<calls, args, localFs, mkdir, remote_output_path, check_cmd,
                   file_exists, error_msg, getPath, artifact, ops, ret, prev>>

\* lines 180-183: error_msg = stderr.read().decode(); a non-empty one is
\* printed and the routine returns
ReadStderr ==
    /\ pc = "stderr"
    /\ \E o \in ReadOutcomes(TRUE) :
         IF o = "timeout"
         THEN /\ Raise("execute", o)
              /\ UNCHANGED <<error_msg, printed>>
         ELSE /\ transport' = IF o = "drop" THEN "dead" ELSE transport
              /\ error_msg' \in IF o = "ok" THEN {"", "Traceback"} ELSE {""}
              /\ pc' = AfterStderr(error_msg')
              /\ IF pc' = "finally"
                 THEN /\ printed' = Append(printed, "exec_error")
                      /\ failed' = "execute"
                 ELSE UNCHANGED <<printed, failed>>
              /\ UNCHANGED sftp
    /\ UNCHANGED <<calls, args, localFs, host, mkdir, remote_output_path,
                   check_cmd, file_exists, getPath, artifact, ops, ret, prev>>

\* lines 186-187: the probe command is built and sent, without a timeout
Probe ==
    /\ pc = "probe"
    /\ ops' = Append(ops, "probe")
    /\ check_cmd' = CheckCmd(remote_output_path)
    /\ \E o \in Outcomes(FALSE) :
         IF o = "ok"
         THEN /\ pc' = "probe_read"
              /\ UNCHANGED <<failed, transport, sftp>>
         ELSE Raise("probe", o)
    /\ UNCHANGED <<calls, args, localFs, host, mkdir, remote_output_path,
                   file_exists, error_msg, getPath, artifact, printed, ret, prev>>

\* line 188: file_exists = stdout.read().decode().strip(), without a timeout
ProbeRead ==
    /\ pc = "probe_read"
    /\ \E o \in ReadOutcomes(FALSE) :
         /\ file_exists' = Strip(IF o = "ok" THEN ProbeOutput(host.out) ELSE <<>>)
         /\ transport' = IF o = "drop" THEN "dead" ELSE transport
    /\ pc' = "branch"
    /\ UNCHANGED <<calls, args, localFs, host, mkdir, sftp, remote_output_path,
                   check_cmd, error_msg, getPath, artifact, ops, printed,
                   failed, ret, prev>>

\* lines 193-201: download when the probe printed the sentinel, else skip
Branch ==
    /\ pc = "branch"
    /\ IF ShouldDownload(file_exists)
       THEN /\ printed' = Append(printed, "download")
            /\ pc' = "get_open"
       ELSE /\ printed' = Append(printed, "skip")
            /\ pc' = "finally"
    /\ UNCHANGED <<calls, args, localFs, host, mkdir, transport, sftp,
                   remote_output_path, check_cmd, file_exists, error_msg,
                   getPath, artifact, ops, failed, ret, prev>>

\* line 196: sftp = ssh.open_sftp(), no timeout
GetOpen ==
    /\ pc = "get_open"
    /\ ops' = Append(ops, "get_open")
    /\ \E o \in Outcomes(FALSE) :
         IF o = "ok"
         THEN /\ sftp' = "open"
              /\ pc' = "get"
              /\ UNCHANGED <<failed, transport>>
         ELSE Raise("download", o)
    /\ UNCHANGED <<calls, args, localFs, host, mkdir, remote_output_path,
                   check_cmd, file_exists, error_msg, getPath, artifact,
                   printed, ret, prev>>

\* line 197: sftp.get(remote_output_path, local_file_path), no timeout;
\* the file may have vanished since the probe
Get ==
    /\ pc = "get"
    /\ ops' = Append(ops, "get")
    /\ getPath' = remote_output_path
    /\ \E o \in Outcomes(FALSE) :
         IF o = "ok" /\ host.out
         THEN /\ artifact' = TRUE
              /\ pc' = "get_close"
              /\ UNCHANGED <<failed, transport, sftp>>
         ELSE /\ Raise("download", IF o = "ok" THEN "err" ELSE o)
              /\ UNCHANGED artifact
    /\ UNCHANGED <<calls, args, localFs, host, mkdir, remote_output_path,
                   check_cmd, file_exists, error_msg, printed, ret, prev>>

\* line 198: sftp.close()
GetClose ==
    /\ pc = "get_close"
    /\ sftp' = "closed"
    /\ pc' = "finally"
    /\ UNCHANGED <<calls, args, localFs, host, mkdir, transport,
                   remote_output_path, check_cmd, file_exists, error_msg,
                   getPath, artifact, ops, printed, failed, ret, prev>>

\* lines 203-204: except Exception: print and fall through
Except ==
    /\ pc = "except"
    /\ printed' = Append(printed, "failed")
    /\ pc' = "finally"
    /\ UNCHANGED <<calls, args, localFs, host, mkdir, transport, sftp,
                   remote_output_path, check_cmd, file_exists, error_msg,
                   getPath, artifact, ops, failed, ret, prev>>

\* lines 205-209: finally: close an active session, print, return;
\* closing the transport closes every channel opened on it
Finally ==
    /\ pc = "finally"
    /\ transport' = FinallyClose(transport)
    /\ sftp' = IF transport' = "closed" /\ sftp = "open" THEN "closed" ELSE sftp
    /\ printed' = Append(printed, "disconnect")
    /\ ret' = ReturnValue(failed)
    /\ pc' = "done"
    /\ UNCHANGED <<calls, args, localFs, host, mkdir, remote_output_path,
                   check_cmd, file_exists, error_msg, getPath, artifact, ops,
                   failed, prev>>

\* The remote host stops responding while a call is in progress.
HostHang ==
    /\ pc \notin {"idle", "done"}
    /\ host.up
    /\ host' = [host EXCEPT !.up = FALSE]
    /\ UNCHANGED <<pc, calls, args, localFs, mkdir, transport, sftp,
                   remote_output_path, check_cmd, file_exists, error_msg,
                   getPath, artifact, ops, printed, failed, ret, prev>>

\* The steps of the caller's thread inside remote_operate.
Program ==
    \/ MakeDirs \/ Connect \/ OpenSftp \/ Stat \/ ExecMkdir \/ Put \/ SftpClose
    \/ Exec \/ Drain \/ ReadStderr \/ Probe \/ ProbeRead \/ Branch
    \/ GetOpen \/ Get \/ GetClose \/ Except \/ Finally

Next ==
    \/ Call
    \/ MakeDirs
    \/ Connect
    \/ OpenSftp
    \/ Stat
    \/ ExecMkdir
    \/ RemoteMkdir
    \/ Put
    \/ SftpClose
    \/ Exec
    \/ Drain
    \/ ReadStderr
    \/ Probe
    \/ ProbeRead
    \/ Branch
    \/ GetOpen
    \/ Get
    \/ GetClose
    \/ Except
    \/ Finally
    \/ HostHang

Spec == Init /\ [][Next]_vars

\* The caller's thread keeps running: a step that can be taken is taken,
\* and a timeout that the code set fires.
LiveSpec == Init /\ [][Next]_vars /\ WF_vars(Program)


(***************************************************************************)
(* Properties.                                                             *)
(***************************************************************************)
\* The operations the call in progress has attempted so far.
Attempted == Range(ops)

\* The messages the call in progress has printed so far.
Printed == Range(printed)

\* The probe ran to the end of its output and its answer was read.
ProbeReported ==
    /\ "probe" \in Attempted
    /\ failed # "probe"
    /\ pc # "probe_read"

\* C1: when a call has ended, the SSH session it opened is no longer
\* active and no SFTP channel opened on it is still open, whatever the exit
\* path (success, return on stderr, timeout, exception at any stage).
C1_SessionClosedAtExit ==
    pc = "done" => (transport # "active" /\ sftp # "open")

\* A call whose upload raised with the SFTP channel open has ended with
\* session and channel closed.
C1_Witness ==
    /\ pc = "done"
    /\ failed = "upload"
    /\ "put" \in Attempted
    /\ transport = "closed"
    /\ sftp = "closed"

\* C2: no exception propagates out of remote_operate to the caller,
\* whichever step fails (local output directory creation included).
C2_NoExceptionEscapes ==
    ret # "raised"

\* C3: when the local script does not exist the run fails before any SSH
\* connection is attempted and before any command or file is sent to the
\* remote host.
C3_ValidatedBeforeContact ==
    ~localFs.script =>
        /\ Attempted \cap {"connect", "open_sftp", "stat", "mkdir", "put"} = {}
        /\ transport = "none"
        /\ mkdir = "none"

\* C4: when the staging directory was absent, the directory-creation
\* command has completed on the remote host before the upload (sftp.put)
\* into that directory begins.
C4_MkdirCompletedBeforePut ==
    "put" \in Attempted => mkdir # "sent"

\* C5: once a stage has failed no later stage is attempted: nothing after
\* a failed connect, no execute, probe or download after a failed upload,
\* no probe or download after a failed execute (non-empty stderr or timeout).
C5_NoStageAfterFailure ==
    /\ failed = "connect" =>
         Attempted \cap {"open_sftp", "stat", "mkdir", "put", "exec",
                         "probe", "get_open", "get"} = {}
    /\ failed = "upload" =>
         Attempted \cap {"exec", "probe", "get_open", "get"} = {}
    /\ (failed = "execute" \/ error_msg # "") =>
         Attempted \cap {"probe", "get_open", "get"} = {}

\* A call has ended after the remote script wrote to stderr.
C5_Witness ==
    /\ pc = "done"
    /\ error_msg # ""
    /\ failed = "execute"
    /\ "exec" \in Attempted

\* C6: a download is attempted if and only if the probe was reached and
\* reported the sentinel "exists"; when it reports anything else no download
\* is attempted, nothing is raised and the call ends normally with no local
\* artifact.
C6_DownloadIffProbeExists ==
    /\ "get_open" \in Attempted => (ProbeReported /\ file_exists = <<"exists">>)
    /\ "get" \in Attempted => "get_open" \in Attempted
    /\ pc = "done" =>
         /\ (ProbeReported /\ file_exists = <<"exists">>) => "get_open" \in Attempted
         /\ (ProbeReported /\ file_exists # <<"exists">>) =>
              /\ Attempted \cap {"get_open", "get"} = {}
              /\ failed = "none"
              /\ ret = "None"
              /\ ~artifact

\* A call has ended normally after the probe answered "no".
C6_Witness ==
    /\ pc = "done"
    /\ ProbeReported
    /\ file_exists = <<"no">>
    /\ "get_open" \notin Attempted
    /\ ret = "None"

\* C7 (as claimed): two calls that end in different outcome classes never
\* return the same value to the caller.
C7_ReturnValueDistinguishes ==
    (pc = "done" /\ prev.outcome # "none" /\ Outcome # prev.outcome)
        => ret # prev.ret

\* C7 (amended): a call that returns always returns None, whatever its
\* outcome class; the class shows only in the messages the call printed:
\* downloaded, no output found, or failed at connect, upload,
\* execute-or-probe, download.
C7_ReturnsNoneOutcomeInMessages ==
    (pc = "done" /\ ret # "raised") =>
        /\ ret = "None"
        /\ Outcome = "downloaded" <=> ("download" \in Printed /\ "failed" \notin Printed)
        /\ Outcome = "no_output" <=> "skip" \in Printed
        /\ Outcome = "connect" <=> ("failed" \in Printed /\ "upload" \notin Printed)
        /\ Outcome = "upload" <=>
             ("failed" \in Printed /\ "upload" \in Printed /\ "executing" \notin Printed)
        /\ Outcome \in {"execute", "probe"} <=>
             /\ "failed" \in Printed \/ "exec_error" \in Printed
             /\ "executing" \in Printed
             /\ "download" \notin Printed
        /\ Outcome = "download" <=> ("failed" \in Printed /\ "download" \in Printed)

\* A call that failed at execute has returned None right after a call that
\* downloaded its artifact returned None.
C7_Witness ==
    /\ pc = "done"
    /\ prev.outcome = "downloaded"
    /\ prev.ret = "None"
    /\ Outcome = "execute"
    /\ ret = "None"

\* C8: the remote path probed and downloaded is exactly
\* remote_output_dir + host_address + "_" + output_filename, nothing inserted
\* or removed; "/tmp/out/", "10.0.0.5", "result.csv" give
\* "/tmp/out/10.0.0.5_result.csv"; probe and download use the same path.
C8_OutputPathExact ==
    LET ExpectedPath == args.remote_output_path \o args.server_ip \o "_"
                            \o args.remote_output_filename
    IN
    /\ pc \notin {"idle"} => remote_output_path = ExpectedPath
    /\ check_cmd # "" =>
         check_cmd = "if [ -f " \o ExpectedPath
                         \o " ]; then echo 'exists'; else echo 'no'; fi"
    /\ getPath # "" => getPath = ExpectedPath
    /\ ( /\ args = [remote_output_path |-> "/tmp/out/", server_ip |-> "10.0.0.5",
                    remote_output_filename |-> "result.csv"]
         /\ getPath # "" )
       => /\ getPath = "/tmp/out/10.0.0.5_result.csv"
          /\ check_cmd = "if [ -f /tmp/out/10.0.0.5_result.csv ]; then echo 'exists'; else echo 'no'; fi"

\* The example of the specification was probed and downloaded.
C8_Witness ==
    /\ args.remote_output_path = "/tmp/out/"
    /\ args.server_ip = "10.0.0.5"
    /\ getPath = "/tmp/out/10.0.0.5_result.csv"
    /\ artifact

\* C9: ensuring the staging directory is idempotent: on a directory that
\* exists the check does not fail for that reason, sends no command and leaves
\* the remote state unchanged, and a directory that exists keeps existing
\* through every later step, a repeated "mkdir -p" included.
C9_EnsureDirIdempotent ==
    [][ /\ (pc = "stat" /\ host.dir /\ pc' \notin {"stat", "except"}) =>
             (pc' = "put" /\ host' = host /\ mkdir' = mkdir)
        /\ host.dir => host'.dir ]_vars

\* In a second call, after a first call whose mkdir ran, the directory
\* check found the directory and went on to the upload without a command.
C9_Witness ==
    /\ calls = 2
    /\ prev.mkdir
    /\ pc = "put"
    /\ host.dir
    /\ mkdir = "none"
    /\ "mkdir" \notin Attempted

\* C10: every call in progress eventually reaches the end of the
\* routine and returns, given that the caller keeps running and that every
\* timeout the code sets fires.
C10_EveryCallReturns ==
    (pc \notin {"idle", "done"}) ~> (pc = "done")

=============================================================================
